---- MODULE Spec2Model ----
(***************************************************************************)
(* just-prompt: the provider adapters (OpenAI, Anthropic, Gemini), their   *)
(* generate / _handle_error retry machinery and the Anthropic model-option *)
(* parser.                                                                 *)
(*                                                                         *)
(* Strings that the code inspects character by character (model names) are *)
(* sequences of one-character strings; prompts and messages, which the     *)
(* code only tests for emptiness or looks up, are TLA+ strings.            *)
(***************************************************************************)
EXTENDS Integers, Sequences, FiniteSets, TLC

VARIABLES
    pc,           \* per call: "idle", "try", "handle", "sleep", "done"
    op,           \* per call: the method called, "generate" or "list_models"
    adapter,      \* per call: the provider class the method was called on
    prompt,       \* per call: the prompt argument of generate
    model,        \* per call: the model argument of generate
    error,        \* per call: the exception caught by the method's except clause
    retry_count,  \* per call: the retry_count local of the innermost _handle_error frame
    pending,      \* per call: what the _handle_error frame does when time.sleep returns
    sent,         \* per call: the requests handed to the vendor SDK, in order
    outcomes,     \* per call: what each vendor call produced, in order
    catalog,      \* per call: the model catalog the vendor returned to list_models
    waits,        \* per call: the arguments of time.sleep, in order
    result,       \* per call: the value returned or the exception raised
    running,      \* the call whose coroutine holds the event-loop thread, or NoCall
    scheduling,   \* how the caller runs its calls: "event_loop" or "threads"
    env,          \* os.environ: per credential variable, None or Some(value)
    instance,     \* per provider class: "none", "ok" (constructed), "failed" (__init__ raised)
    api_key,      \* per provider class: self.api_key of the instance
    genai_key,    \* the key handed to genai.configure (module-wide in the Gemini SDK)
    raw,          \* parser harness: the raw model string
    parsed,       \* parser harness: the tuple returned by the parser, or None
    parse_pc,     \* parser harness: "input", "parsed"
    prefix,       \* registry harness: the argument of Provider.from_prefix
    resolved,     \* registry harness: the Provider returned or the exception raised
    resolve_pc    \* registry harness: "input", "resolved"

callVars == <<pc, op, adapter, prompt, model, error, retry_count, pending,
              sent, outcomes, catalog, waits, result, running, scheduling>>
adapterVars == <<env, instance, api_key, genai_key>>
parseVars == <<raw, parsed, parse_pc>>
resolveVars == <<prefix, resolved, resolve_pc>>
vars == <<callVars, adapterVars, parseVars, resolveVars>>

-----------------------------------------------------------------------------
(* Bounds of the model *)

\* vendor calls explored per generate call (the code itself sets no limit that is reached)
MaxAttempts == 5

\* length of the raw model strings given to the parser
MaxLen == 5

-----------------------------------------------------------------------------
(* Values *)

\* Optional[int]: None is the empty tuple, a present value v is Some(v)
None == <<>>
Some(v) == <<v>>

\* a keyword argument the request does not pass
NotPassed == "not passed"

NoCall == "no_call"

Calls == {"c1", "c2"}
MainCall == "c1"

Adapters == {"openai", "anthropic", "gemini"}

Prompts == {"", "Test prompt"}

ModelInputs ==
    { <<>>,
      <<"m">>,
      <<"m", ":", "4", "k">>,
      <<"m", ":", "0">>,
      <<"g", "p", "t", "-", "4">>,
      <<"g", "p", "t", "-", "4", ":", "4", "k">> }

\* What a vendor call can raise: the exception class and its message.
Causes ==
    { [type |-> "RateLimitError",      message |-> "Quota exceeded"],
      [type |-> "RateLimitError",      message |-> "Quota exceeded for this API key"],
      [type |-> "AuthenticationError", message |-> "Invalid API key"],
      [type |-> "APIError",            message |-> "Internal server error"],
      [type |-> "Exception",           message |-> "Connection reset"] }

OkResponse == [type |-> "ok", message |-> "Test response"]

\* the vendor outcomes of a generation request (the response shapes are below)
Outcomes ==
    Causes \cup { OkResponse,
                  [type |-> "null_text", message |-> "Test response via candidates"],
                  [type |-> "no_text",   message |-> "Test response via candidates"],
                  [type |-> "empty",     message |-> "<response object>"] }

-----------------------------------------------------------------------------
(* The model-option parser *)

Digits == {"0", "1", "2", "3", "4", "5", "6", "7", "8", "9"}

DigitValue(ch) ==
    CASE ch = "0" -> 0 [] ch = "1" -> 1 [] ch = "2" -> 2 [] ch = "3" -> 3
      [] ch = "4" -> 4 [] ch = "5" -> 5 [] ch = "6" -> 6 [] ch = "7" -> 7
      [] ch = "8" -> 8 [] ch = "9" -> 9

\* int(match.group(2))
RECURSIVE int(_)
int(ds) ==
    IF ds = <<>> THEN 0
    ELSE 10 * int(SubSeq(ds, 1, Len(ds) - 1)) + DigitValue(ds[Len(ds)])

\* \d+
IsDigits(s) == Len(s) >= 1 /\ \A i \in 1..Len(s) : s[i] \in Digits

\* '.' matches every character but a line break
DotMatchesAll(s) == \A i \in 1..Len(s) : s[i] # "\n"

\* '$' matches at the end of the string and before a line break that ends it
BeforeDollar(s) ==
    IF Len(s) >= 1 /\ s[Len(s)] = "\n" THEN SubSeq(s, 1, Len(s) - 1) ELSE s

\* group 3 of a text matching (\d+)([km])?
UnitOf(body) ==
    IF Len(body) >= 1 /\ body[Len(body)] \in {"k", "m"} THEN body[Len(body)] ELSE ""

\* group 2 of a text matching (\d+)([km])?
DigitsOf(body) ==
    IF UnitOf(body) = "" THEN body ELSE SubSeq(body, 1, Len(body) - 1)

\* the positions i of a ':' such that ^(.*?) takes s[1..i-1] and (\d+)([km])?$ the rest
MatchPositions(s) ==
    { i \in 1..Len(s) :
        /\ s[i] = ":"
        /\ DotMatchesAll(SubSeq(s, 1, i - 1))
        /\ IsDigits(DigitsOf(BeforeDollar(SubSeq(s, i + 1, Len(s))))) }

Min(S) == CHOOSE x \in S : \A y \in S : x <= y

\* token_value after the unit is applied
ScaleByUnit(token_value, unit) ==
    IF unit = "k" THEN token_value * 1024
    ELSE IF unit = "m" THEN token_value * 1024 * 1024
    ELSE token_value

\* AnthropicProvider._parse_model_with_thinking_tokens: <<base_model, token_value>>
parse_model_with_thinking_tokens(m) ==
    IF MatchPositions(m) = {} THEN <<m, None>>
    ELSE LET i == Min(MatchPositions(m))      \* (.*?) is lazy: the first position that works
             body == BeforeDollar(SubSeq(m, i + 1, Len(m)))
         IN  << SubSeq(m, 1, i - 1), Some(ScaleByUnit(int(DigitsOf(body)), UnitOf(body))) >>

-----------------------------------------------------------------------------
(* Program constants *)

\* max_retries in every _handle_error
max_retries == 3

\* max_tokens of the OpenAI and Anthropic requests
max_tokens == 1024

\* max_output_tokens of the Gemini generation_config
max_output_tokens == 2048

\* the argument of time.sleep in the API-error branch
api_error_wait == 1

-----------------------------------------------------------------------------
(* Error classification *)

\* isinstance(error, cls) over the SDK exception classes: RateLimitError and
\* AuthenticationError derive from APIError, which derives from Exception.
IsInstance(e, cls) ==
    CASE cls = "RateLimitError"      -> e.type = "RateLimitError"
      [] cls = "AuthenticationError" -> e.type = "AuthenticationError"
      [] cls = "APIError"            -> e.type \in {"RateLimitError", "AuthenticationError", "APIError"}
      [] cls = "Exception"           -> TRUE

\* "word in text"
Contains(text, word) ==
    \E i \in 0..(Len(text) - Len(word)) : SubSeq(text, i + 1, i + Len(word)) = word

LowerLetters == << "a","b","c","d","e","f","g","h","i","j","k","l","m",
                   "n","o","p","q","r","s","t","u","v","w","x","y","z" >>
UpperLetters == << "A","B","C","D","E","F","G","H","I","J","K","L","M",
                   "N","O","P","Q","R","S","T","U","V","W","X","Y","Z" >>

\* str.lower() of one character
LowerChar(ch) ==
    IF \E i \in 1..Len(UpperLetters) : UpperLetters[i] = ch
    THEN LowerLetters[CHOOSE i \in 1..Len(UpperLetters) : UpperLetters[i] = ch]
    ELSE ch

\* str.upper() of one character
UpperChar(ch) ==
    IF \E i \in 1..Len(LowerLetters) : LowerLetters[i] = ch
    THEN UpperLetters[CHOOSE i \in 1..Len(LowerLetters) : LowerLetters[i] = ch]
    ELSE ch

\* prefix.lower()
lower(s) == [i \in 1..Len(s) |-> LowerChar(s[i])]

\* str(error): the characters of each message the vendors raise here
Chars(message) ==
    CASE message = "Quota exceeded" ->
            <<"Q","u","o","t","a"," ","e","x","c","e","e","d","e","d">>
      [] message = "Quota exceeded for this API key" ->
            <<"Q","u","o","t","a"," ","e","x","c","e","e","d","e","d"," ","f","o","r"," ","t","h","i","s"," ","A","P","I"," ","k","e","y">>
      [] message = "Invalid API key" ->
            <<"I","n","v","a","l","i","d"," ","A","P","I"," ","k","e","y">>
      [] message = "Internal server error" ->
            <<"I","n","t","e","r","n","a","l"," ","s","e","r","v","e","r"," ","e","r","r","o","r">>
      [] message = "Connection reset" ->
            <<"C","o","n","n","e","c","t","i","o","n"," ","r","e","s","e","t">>
      [] message = "validation error for PromptResponse" ->
            <<"v","a","l","i","d","a","t","i","o","n"," ","e","r","r","o","r"," ","f","o","r"," ","P","r","o","m","p","t","R","e","s","p","o","n","s","e">>
      [] message = "object has no attribute" ->
            <<"o","b","j","e","c","t"," ","h","a","s"," ","n","o"," ","a","t","t","r","i","b","u","t","e">>
      [] message = "QUOTA EXCEEDED" ->
            <<"Q","U","O","T","A"," ","E","X","C","E","E","D","E","D">>
      [] message = "Authentication failed" ->
            <<"A","u","t","h","e","n","t","i","c","a","t","i","o","n"," ","f","a","i","l","e","d">>
      [] message = "API KEY not valid" ->
            <<"A","P","I"," ","K","E","Y"," ","n","o","t"," ","v","a","l","i","d">>
      [] message = "Deadline exceeded" ->
            <<"D","e","a","d","l","i","n","e"," ","e","x","c","e","e","d","e","d">>
      [] OTHER -> <<>>

Messages ==
    { "Quota exceeded", "Quota exceeded for this API key", "Invalid API key",
      "Internal server error", "Connection reset", "validation error for PromptResponse",
      "object has no attribute", "QUOTA EXCEEDED", "Authentication failed",
      "API KEY not valid", "Deadline exceeded" }

\* the messages for which each textual test of GeminiProvider._handle_error is true
QuotaMessages ==
    { m \in Messages : Contains(lower(Chars(m)), <<"q","u","o","t","a">>) }
AuthWordMessages ==
    { m \in Messages :
        \/ Contains(lower(Chars(m)), <<"a","u","t","h","e","n","t","i","c","a","t","i","o","n">>)
        \/ Contains(lower(Chars(m)), <<"a","p","i"," ","k","e","y">>) }

\* "quota" in str(error).lower()
ContainsQuota(e) == e.message \in QuotaMessages

\* "authentication" in str(error).lower() or "api key" in str(error).lower()
ContainsAuthWord(e) == e.message \in AuthWordMessages

\* the rate-limit test of the first branch of _handle_error
IsRateLimit(a, e) ==
    IF a = "gemini" THEN ContainsQuota(e) ELSE IsInstance(e, "RateLimitError")

\* a variant of IsAuth in which Gemini looks for the word "authentication" only
\* and the other adapters repeat the rate-limit class in the second branch
IsAuth_narrow(a, e) ==
    IF a = "gemini" THEN e.message \in {"Authentication failed"}
    ELSE IsInstance(e, "RateLimitError")

\* the authentication test of the second branch of _handle_error
IsAuth(a, e) ==
    IF a = "gemini" THEN ContainsAuthWord(e) ELSE IsInstance(e, "AuthenticationError")

\* the API-error test of the third branch (Gemini's third branch tests no class)
IsAPIError(a, e) ==
    IF a = "gemini" THEN TRUE ELSE IsInstance(e, "APIError")

\* a variant of wait_time that starts the backoff one step late
wait_time_late(rc) == 2 ^ (rc + 1)

\* wait_time = 2 ** retry_count
wait_time(rc) == 2 ^ rc

\* a variant of HasRetryContext that looks at the prompt alone
HasRetryContext_prompt_only(p, m) == p # ""

\* "if prompt and model": both keyword arguments present and non-empty
HasRetryContext(p, m) == p # "" /\ m # <<>>

\* raise ValueError(f"<prefix>: {str(error)}")
ValueError(text, e) == [type |-> "ValueError", prefix |-> text, message |-> e.message]

\* raise error
Reraise(e) == [type |-> e.type, prefix |-> "", message |-> e.message]

NoException == [type |-> "none", prefix |-> "", message |-> ""]

\* What one _handle_error frame does: the time.sleep argument (None: no sleep),
\* what follows ("generate": self.generate(prompt, model); "raise": raise exc),
\* and the value of its retry_count local at that point.
Decision(sleep, next, exc, rc) ==
    [sleep |-> sleep, next |-> next, exc |-> exc, retry_count |-> rc]

\* OpenAIProvider._handle_error
OpenAI_handle_error(e, rc, p, m) ==
    IF IsRateLimit("openai", e) /\ rc < max_retries THEN
        IF HasRetryContext(p, m)
        THEN Decision(Some(wait_time(rc)), "generate", NoException, rc)
        ELSE Decision(Some(wait_time(rc)), "raise", Reraise(e), rc)
    ELSE IF IsAuth("openai", e) THEN
        Decision(None, "raise", ValueError("API key is invalid", e), rc)
    ELSE IF IsAPIError("openai", e) THEN
        IF rc < max_retries THEN
            IF HasRetryContext(p, m)
            THEN Decision(Some(api_error_wait), "generate", NoException, rc)
            ELSE Decision(Some(api_error_wait), "raise", ValueError("API error", e), rc)
        ELSE Decision(None, "raise", ValueError("API error", e), rc)
    ELSE Decision(None, "raise", ValueError("Error occurred when calling API", e), rc)

\* AnthropicProvider._handle_error
Anthropic_handle_error(e, rc, p, m) ==
    IF IsRateLimit("anthropic", e) /\ rc < max_retries THEN
        IF HasRetryContext(p, m)
        THEN Decision(Some(wait_time(rc)), "generate", NoException, rc + 1)
        ELSE Decision(Some(wait_time(rc)), "raise", Reraise(e), rc)
    ELSE IF IsAuth("anthropic", e) THEN
        Decision(None, "raise", ValueError("API key is invalid", e), rc)
    ELSE IF IsAPIError("anthropic", e) THEN
        IF rc < max_retries THEN
            IF HasRetryContext(p, m)
            THEN Decision(Some(api_error_wait), "generate", NoException, rc + 1)
            ELSE Decision(Some(api_error_wait), "raise", ValueError("API error", e), rc)
        ELSE Decision(None, "raise", ValueError("API error", e), rc)
    ELSE Decision(None, "raise", ValueError("Error occurred when calling API", e), rc)

\* a variant of Gemini_handle_error that tests the authentication words first
Gemini_handle_error_auth_first(e, rc, p, m) ==
    IF IsAuth("gemini", e) THEN
        Decision(None, "raise", ValueError("API key is invalid", e), rc)
    ELSE IF IsRateLimit("gemini", e) /\ rc < max_retries THEN
        IF HasRetryContext(p, m)
        THEN Decision(Some(wait_time(rc)), "generate", NoException, rc + 1)
        ELSE Decision(Some(wait_time(rc)), "raise", Reraise(e), rc)
    ELSE IF IsAPIError("gemini", e) /\ rc < max_retries /\ HasRetryContext(p, m) THEN
        Decision(Some(api_error_wait), "generate", NoException, rc + 1)
    ELSE Decision(None, "raise", ValueError("Error occurred when calling API", e), rc)

\* GeminiProvider._handle_error
Gemini_handle_error(e, rc, p, m) ==
    IF IsRateLimit("gemini", e) /\ rc < max_retries THEN
        IF HasRetryContext(p, m)
        THEN Decision(Some(wait_time(rc)), "generate", NoException, rc + 1)
        ELSE Decision(Some(wait_time(rc)), "raise", Reraise(e), rc)
    ELSE IF IsAuth("gemini", e) THEN
        Decision(None, "raise", ValueError("API key is invalid", e), rc)
    ELSE IF IsAPIError("gemini", e) /\ rc < max_retries /\ HasRetryContext(p, m) THEN
        Decision(Some(api_error_wait), "generate", NoException, rc + 1)
    ELSE Decision(None, "raise", ValueError("Error occurred when calling API", e), rc)

handle_error(a, e, rc, p, m) ==
    CASE a = "openai"    -> OpenAI_handle_error(e, rc, p, m)
      [] a = "anthropic" -> Anthropic_handle_error(e, rc, p, m)
      [] a = "gemini"    -> Gemini_handle_error(e, rc, p, m)

\* generate's except clause: self._handle_error(e, retry_count=0, prompt=prompt, model=model)
RetryCountArgument(failed) == 0

-----------------------------------------------------------------------------
(* The request each adapter builds *)

StartsWith(s, start) ==
    Len(s) >= Len(start) /\ SubSeq(s, 1, Len(start)) = start

Request(endpoint, m, p, temperature, limit, thinking) ==
    [endpoint |-> endpoint, model |-> m, prompt |-> p, temperature |-> temperature,
     max_tokens |-> limit, thinking_tokens |-> thinking]

\* OpenAIProvider.generate: the endpoint called and its keyword arguments
\* a variant of OpenAI_request that uses the chat endpoint for every model
OpenAI_request_chat_only(p, m) ==
    Request("chat.completions.create", m, p, "0.7", max_tokens, None)

OpenAI_request(p, m) ==
    IF StartsWith(m, <<"g", "p", "t", "-">>)
    THEN Request("chat.completions.create", m, p, "0.7", max_tokens, None)
    ELSE Request("completions.create", m, p, "0.7", max_tokens, None)

\* "if thinking_tokens:" -- the parameter is added when the value is truthy
ThinkingParameter(thinking_tokens) ==
    IF thinking_tokens # None /\ thinking_tokens[1] # 0 THEN thinking_tokens ELSE None

\* a variant of Anthropic_request that hands the vendor the unparsed model string
Anthropic_request_unparsed(p, m) ==
    Request("messages.create", m, p, NotPassed, max_tokens,
            ThinkingParameter(parse_model_with_thinking_tokens(m)[2]))

\* AnthropicProvider.generate: message_params
Anthropic_request(p, m) ==
    LET parsedModel == parse_model_with_thinking_tokens(m)
    IN  Request("messages.create", parsedModel[1], p, NotPassed, max_tokens,
                ThinkingParameter(parsedModel[2]))

\* GeminiProvider.generate: GenerativeModel(model_name=model, ...).generate_content(prompt)
Gemini_request(p, m) ==
    Request("generate_content", m, p, "0.7", max_output_tokens, None)

BuildRequest(a, p, m) ==
    CASE a = "openai"    -> OpenAI_request(p, m)
      [] a = "anthropic" -> Anthropic_request(p, m)
      [] a = "gemini"    -> Gemini_request(p, m)

\* a variant of ResponseModel that echoes the base name the vendor received
ResponseModel_base(a, m) ==
    IF a = "anthropic" THEN parse_model_with_thinking_tokens(m)[1] ELSE m

\* the model field of the PromptResponse that generate returns
ResponseModel(a, m) == m

-----------------------------------------------------------------------------
(* The vendor response and the text generate takes from it *)

\* The shapes of a successful vendor response, by its direct text field
\* (OpenAI: choices[0].message.content or choices[0].text; Anthropic:
\* content[0].text; Gemini: text):
\*   "ok"         the field holds the text `message`
\*   "null_text"  the field is there and holds None; a nested candidate part holds `message`
\*   "no_text"    the object has no such field; a nested candidate part holds `message`
\*   "empty"      no such field and no candidates; str(response) is `message`
ResponseShapes == {"ok", "null_text", "no_text", "empty"}

NullTextResponse == [type |-> "null_text", message |-> "Test response via candidates"]
NoTextResponse   == [type |-> "no_text",   message |-> "Test response via candidates"]
EmptyResponse    == [type |-> "empty",     message |-> "<response object>"]

Responses == {OkResponse, NullTextResponse, NoTextResponse, EmptyResponse}

\* the exceptions the try block itself can raise after the vendor call returned
AttributeErrorRaised == [type |-> "Exception", message |-> "object has no attribute"]
ValidationErrorRaised == [type |-> "Exception", message |-> "validation error for PromptResponse"]

Extracted(content) == [raised |-> FALSE, exc |-> [type |-> "none", message |-> ""], content |-> content]
ExtractionRaises(e) == [raised |-> TRUE, exc |-> e, content |-> None]

\* GeminiProvider._extract_text_from_response
extract_text_from_response(response) ==
    IF response.type \in {"null_text", "no_text"}   \* candidates[0].content.parts[0].text
    THEN Some(response.message)
    ELSE Some(response.message)                     \* str(response)

\* the content argument of PromptResponse(...) in each generate
Content(a, response) ==
    IF a = "gemini" THEN
        \* response.text if hasattr(response, 'text') else self._extract_text_from_response(response)
        CASE response.type = "ok"        -> Extracted(Some(response.message))
          [] response.type = "null_text" -> Extracted(None)
          [] OTHER                       -> Extracted(extract_text_from_response(response))
    ELSE
        \* response.choices[0].message.content, response.choices[0].text, response.content[0].text
        CASE response.type = "ok"        -> Extracted(Some(response.message))
          [] response.type = "null_text" -> Extracted(None)
          [] OTHER                       -> ExtractionRaises(AttributeErrorRaised)

\* a variant of ContentIsValid for a field declared Optional[str]
ContentIsValid_optional(content) == TRUE

\* PromptResponse.content is declared "content: str": None is rejected
ContentIsValid(content) == content # None

\* a response with the usage the vendor reports: the counts of the prompt and
\* of the completion and their total (OpenAI usage.total_tokens, Gemini
\* usage_metadata.total_token_count; Anthropic usage.input_tokens and
\* usage.output_tokens).  A response record without the usage field is an
\* object without the attribute; usage |-> None is the attribute holding None.
Usage(p, c) == [prompt |-> p, completion |-> c, total |-> p + c]
UsageResponse == [type |-> "ok", message |-> "Test response", usage |-> Some(Usage(10, 20))]
NullUsageResponse == [type |-> "ok", message |-> "Test response", usage |-> None]
NullTextUsageResponse ==
    [type |-> "null_text", message |-> "Test response via candidates", usage |-> Some(Usage(3, 4))]

\* hasattr(response, 'usage'), hasattr(response, 'usage_metadata')
HasUsage(response) == "usage" \in DOMAIN response

\* a variant of Tokens in which Anthropic reports the input tokens alone
Tokens_input_only(a, response) ==
    IF ~HasUsage(response) THEN Extracted(None)
    ELSE IF response.usage = None THEN ExtractionRaises(AttributeErrorRaised)
    ELSE IF a = "anthropic" THEN Extracted(Some(response.usage[1].prompt))
    ELSE Extracted(Some(response.usage[1].total))

\* the tokens argument of PromptResponse(...) in each generate
Tokens(a, response) ==
    IF ~HasUsage(response) THEN Extracted(None)
    ELSE IF response.usage = None
         THEN ExtractionRaises(AttributeErrorRaised)    \* None has no total_tokens
    ELSE IF a = "anthropic"
         \* response.usage.input_tokens + response.usage.output_tokens
         THEN Extracted(Some(response.usage[1].prompt + response.usage[1].completion))
         \* response.usage.total_tokens, response.usage_metadata.total_token_count
    ELSE Extracted(Some(response.usage[1].total))

\* PromptResponse(model=model, content=content, tokens=tokens)
PromptResponse(a, m, content, tokens) ==
    [type |-> "PromptResponse", model |-> ResponseModel(a, m), content |-> content,
     tokens |-> tokens]

\* What the try block of generate produces from a vendor response: the
\* PromptResponse it returns, or the exception its except clause catches.
TryResult(a, m, response) ==
    LET u == Tokens(a, response)
        x == Content(a, response)
    IN  IF u.raised THEN [returns |-> FALSE, exc |-> u.exc, value |-> NoException]
        ELSE IF x.raised THEN [returns |-> FALSE, exc |-> x.exc, value |-> NoException]
        ELSE IF ~ContentIsValid(x.content)
             THEN [returns |-> FALSE, exc |-> ValidationErrorRaised, value |-> NoException]
        ELSE [returns |-> TRUE, exc |-> [type |-> "none", message |-> ""],
              value |-> PromptResponse(a, m, x.content, u.content)]

\* The error kinds of the specification, read off what the adapter raises.
ErrorKind(x) ==
    IF x.type \in {"PromptResponse", "models"} THEN "none"
    ELSE IF x.type = "ValueError" /\ x.prefix = "API key is invalid" THEN "AuthError"
    ELSE IF x.type = "ValueError" THEN "ProviderError"
    ELSE "VendorException"

-----------------------------------------------------------------------------
(* list_models *)

\* catalog entries explored per list_models call
MaxCatalog == 2

\* One model of a vendor catalog: OpenAI reads name as model.id, Gemini reads
\* name and supported_generation_methods.
CatalogEntries ==
    { [name |-> <<"g", "p", "t", "-", "4">>,           methods |-> {"generateContent"}],
      [name |-> <<"t", "e", "x", "t", "-", "a">>,      methods |-> {"embedContent"}],
      [name |-> <<"d", "a", "l", "l">>,                methods |-> {"generateContent", "countTokens"}],
      [name |-> <<"m", "/", "m", "/", "g", "p", "t", "-", "3">>, methods |-> {"generateContent"}],
      [name |-> <<"g", "p", "t", "-">>,                methods |-> {"generateContent"}] }

Catalogs == UNION { [1..n -> CatalogEntries] : n \in 0..MaxCatalog }

\* the vendor answered the catalog request
CatalogResponse == [type |-> "catalog", message |-> ""]

\* ord() of the characters that occur in catalog names
Ord(ch) ==
    CASE ch = "-" -> 45 [] ch = "/" -> 47 [] ch = "3" -> 51 [] ch = "4" -> 52
      [] ch = "a" -> 97 [] ch = "d" -> 100 [] ch = "e" -> 101 [] ch = "g" -> 103
      [] ch = "l" -> 108 [] ch = "m" -> 109 [] ch = "p" -> 112 [] ch = "t" -> 116
      [] ch = "x" -> 120

\* s <= t for Python str
RECURSIVE StrLeq(_, _)
StrLeq(s, t) ==
    IF s = <<>> THEN TRUE
    ELSE IF t = <<>> THEN FALSE
    ELSE IF Ord(Head(s)) < Ord(Head(t)) THEN TRUE
    ELSE IF Ord(Head(s)) > Ord(Head(t)) THEN FALSE
    ELSE StrLeq(Tail(s), Tail(t))

\* x put into the ascending list xs after the elements that are <= x
RECURSIVE InsertSorted(_, _)
InsertSorted(x, xs) ==
    IF xs = <<>> THEN <<x>>
    ELSE IF StrLeq(Head(xs), x) THEN <<Head(xs)>> \o InsertSorted(x, Tail(xs))
    ELSE <<x>> \o xs

\* a variant of sorted that returns the list in catalog order
sorted_missing(xs) == xs

\* sorted(relevant_models)
RECURSIVE sorted(_)
sorted(xs) ==
    IF xs = <<>> THEN <<>>
    ELSE InsertSorted(xs[Len(xs)], sorted(SubSeq(xs, 1, Len(xs) - 1)))

\* model.id.startswith(("gpt-", "text-"))
IsRelevantModel(id) ==
    \/ StartsWith(id, <<"g", "p", "t", "-">>)
    \/ StartsWith(id, <<"t", "e", "x", "t", "-">>)

\* [model.id for model in models.data if model.id.startswith(("gpt-", "text-"))]
RECURSIVE RelevantModels(_)
RelevantModels(models) ==
    IF models = <<>> THEN <<>>
    ELSE (IF IsRelevantModel(Head(models).name) THEN <<Head(models).name>> ELSE <<>>)
            \o RelevantModels(Tail(models))

\* OpenAIProvider.list_models: the value returned for a catalog
OpenAI_list_models(models) == sorted(RelevantModels(models))

\* a variant of LastSegment that takes the segment after the first '/'
LastSegment_second(name) ==
    LET slashes == { i \in 1..Len(name) : name[i] = "/" }
    IN  IF slashes = {} THEN name
        ELSE LET first == CHOOSE i \in slashes : \A j \in slashes : i <= j
                 later == { i \in slashes : i > first }
             IN  IF later = {} THEN SubSeq(name, first + 1, Len(name))
                 ELSE SubSeq(name, first + 1, (CHOOSE i \in later : \A j \in later : i <= j) - 1)

\* name.split('/')[-1]
LastSegment(name) ==
    LET slashes == { i \in 1..Len(name) : name[i] = "/" }
    IN  IF slashes = {} THEN name
        ELSE SubSeq(name, (CHOOSE i \in slashes : \A j \in slashes : j <= i) + 1, Len(name))

\* GeminiProvider.list_models: the value returned for a catalog
\* [model.name.split('/')[-1] for model in models
\*      if "generateContent" in model.supported_generation_methods]
RECURSIVE Gemini_list_models(_)
Gemini_list_models(models) ==
    IF models = <<>> THEN <<>>
    ELSE (IF "generateContent" \in Head(models).methods
          THEN <<LastSegment(Head(models).name)>> ELSE <<>>)
            \o Gemini_list_models(Tail(models))

\* AnthropicProvider.list_models: the static list
Anthropic_list_models ==
    << "claude-3-opus-20240229", "claude-3-sonnet-20240229", "claude-3-haiku-20240307",
       "claude-3-7-sonnet-20250219", "claude-2.1", "claude-2.0", "claude-instant-1.2" >>

ModelList(ids) == [type |-> "models", ids |-> ids]

-----------------------------------------------------------------------------
(* Construction of the adapters *)

\* the environment variable each __init__ reads
EnvVar(a) ==
    CASE a = "openai"    -> "OPENAI_API_KEY"
      [] a = "anthropic" -> "ANTHROPIC_API_KEY"
      [] a = "gemini"    -> "GEMINI_API_KEY"

EnvVars == {"OPENAI_API_KEY", "ANTHROPIC_API_KEY", "GEMINI_API_KEY"}

\* a variable is unset, set to the empty string, or set to a key
EnvValues == {None, Some(""), Some("test_key")}

\* a variant of getenv in which every adapter reads the OpenAI variable
getenv_shared(a) == env["OPENAI_API_KEY"]

\* os.getenv("<VENDOR>_API_KEY") in __init__
getenv(a) == env[EnvVar(a)]

\* "if not self.api_key"
NotKey(value) == value = None \/ value = Some("")

\* the adapter object: not yet constructed, constructed, or __init__ raised
\* ValueError("<VENDOR>_API_KEY environment variable not set")
NotConstructed == [state |-> "none", exc |-> "", arg |-> ""]
Constructed == [state |-> "ok", exc |-> "", arg |-> ""]
ConstructionFailed(a) ==
    [state |-> "failed", exc |-> "ValueError: environment variable not set", arg |-> EnvVar(a)]

-----------------------------------------------------------------------------
(* The calls as a state machine *)

NoDecision == Decision(None, "none", NoException, 0)
NoResult == NoException
NoError == [type |-> "none", message |-> ""]

InitCalls ==
    /\ pc = [c \in Calls |-> "idle"]
    /\ op = [c \in Calls |-> "generate"]
    /\ adapter = [c \in Calls |-> "openai"]
    /\ prompt = [c \in Calls |-> ""]
    /\ model = [c \in Calls |-> <<>>]
    /\ error = [c \in Calls |-> NoError]
    /\ retry_count = [c \in Calls |-> 0]
    /\ pending = [c \in Calls |-> NoDecision]
    /\ sent = [c \in Calls |-> <<>>]
    /\ outcomes = [c \in Calls |-> <<>>]
    /\ catalog = [c \in Calls |-> <<>>]
    /\ waits = [c \in Calls |-> <<>>]
    /\ result = [c \in Calls |-> NoResult]
    /\ running = NoCall

\* every credential variable is set and the three adapters are constructed
InitConstructed ==
    /\ env = [v \in EnvVars |-> Some("test_key")]
    /\ instance = [a \in Adapters |-> Constructed]
    /\ api_key = [a \in Adapters |-> Some("test_key")]
    /\ genai_key = Some("test_key")

InitParser ==
    /\ raw = <<>>
    /\ parsed = None
    /\ parse_pc = "input"

InitResolver ==
    /\ prefix = <<>>
    /\ resolved = NoException
    /\ resolve_pc = "input"

Init ==
    /\ InitCalls
    /\ scheduling = "event_loop"
    /\ InitConstructed
    /\ InitParser
    /\ InitResolver

\* On an event loop a coroutine that never awaits a pending future (none of the
\* adapters does: the vendor calls and time.sleep are synchronous) keeps the
\* thread from its first step to its return; on threads every call has its own.
MayStart(c) == scheduling = "threads" \/ running = NoCall
MayStep(c) == scheduling = "threads" \/ running = c
Holding(c) == IF scheduling = "threads" THEN NoCall ELSE c

\* a variant of KeyHeld in which a call reads the environment again
KeyHeld_refreshed(a) == getenv(a)

\* the key a call finds on the adapter and leaves there: self.api_key is
\* assigned in __init__ and nowhere else, and the client built from it is kept
KeyHeld(a) == api_key[a]

\* await provider.generate(prompt, model): the coroutine starts
Generate(c, a, p, m) ==
    /\ pc[c] = "idle"
    /\ instance[a] = Constructed
    /\ MayStart(c)
    /\ pc' = [pc EXCEPT ![c] = "try"]
    /\ op' = [op EXCEPT ![c] = "generate"]
    /\ adapter' = [adapter EXCEPT ![c] = a]
    /\ prompt' = [prompt EXCEPT ![c] = p]
    /\ model' = [model EXCEPT ![c] = m]
    /\ running' = Holding(c)
    /\ api_key' = [api_key EXCEPT ![a] = KeyHeld(a)]
    /\ UNCHANGED <<error, retry_count, pending, sent, outcomes, catalog, waits, result, scheduling>>
    /\ UNCHANGED <<env, instance, genai_key, parseVars, resolveVars>>

\* the try block of generate: build the request, call the vendor, and either
\* return the PromptResponse or enter the except clause with the exception
VendorCall(c, o) ==
    /\ pc[c] = "try"
    /\ op[c] = "generate"
    /\ MayStep(c)
    /\ Len(sent[c]) < MaxAttempts
    /\ sent' = [sent EXCEPT ![c] = Append(@, BuildRequest(adapter[c], prompt[c], model[c]))]
    /\ outcomes' = [outcomes EXCEPT ![c] = Append(@, o)]
    /\ LET t == IF o.type \in ResponseShapes
                THEN TryResult(adapter[c], model[c], o)
                ELSE [returns |-> FALSE, exc |-> o, value |-> NoException]
       IN  IF t.returns
           THEN /\ result' = [result EXCEPT ![c] = t.value]
                /\ pc' = [pc EXCEPT ![c] = "done"]
                /\ running' = NoCall
                /\ UNCHANGED <<error, retry_count>>
           ELSE /\ error' = [error EXCEPT ![c] = t.exc]
                /\ retry_count' = [retry_count EXCEPT ![c] = RetryCountArgument(Len(outcomes[c]))]
                /\ pc' = [pc EXCEPT ![c] = "handle"]
                /\ UNCHANGED <<result, running>>
    /\ UNCHANGED <<op, adapter, prompt, model, pending, catalog, waits, scheduling>>
    /\ UNCHANGED <<adapterVars, parseVars, resolveVars>>

\* await provider.list_models(): the coroutine starts; _handle_error will get
\* no prompt and no model keyword (kwargs.get returns None, which is falsy like
\* the empty string)
ListModels(c, a) ==
    /\ pc[c] = "idle"
    /\ instance[a] = Constructed
    /\ MayStart(c)
    /\ pc' = [pc EXCEPT ![c] = "try"]
    /\ op' = [op EXCEPT ![c] = "list_models"]
    /\ adapter' = [adapter EXCEPT ![c] = a]
    /\ prompt' = [prompt EXCEPT ![c] = ""]
    /\ model' = [model EXCEPT ![c] = <<>>]
    /\ running' = Holding(c)
    /\ api_key' = [api_key EXCEPT ![a] = KeyHeld(a)]
    /\ UNCHANGED <<error, retry_count, pending, sent, outcomes, catalog, waits, result, scheduling>>
    /\ UNCHANGED <<env, instance, genai_key, parseVars, resolveVars>>

\* AnthropicProvider.list_models: no vendor call, the static list is returned
StaticList(c) ==
    /\ pc[c] = "try"
    /\ op[c] = "list_models"
    /\ adapter[c] = "anthropic"
    /\ MayStep(c)
    /\ result' = [result EXCEPT ![c] = ModelList(Anthropic_list_models)]
    /\ pc' = [pc EXCEPT ![c] = "done"]
    /\ running' = NoCall
    /\ UNCHANGED <<op, adapter, prompt, model, error, retry_count, pending, sent,
                   outcomes, catalog, waits, scheduling>>
    /\ UNCHANGED <<adapterVars, parseVars, resolveVars>>

\* the try block of OpenAI and Gemini list_models: the vendor returns the
\* catalog `models` (o = CatalogResponse) or raises o
VendorList(c, o, models) ==
    /\ pc[c] = "try"
    /\ op[c] = "list_models"
    /\ adapter[c] \in {"openai", "gemini"}
    /\ MayStep(c)
    /\ Len(sent[c]) < MaxAttempts
    /\ sent' = [sent EXCEPT ![c] = Append(@, Request("models.list", <<>>, "", NotPassed, None, None))]
    /\ outcomes' = [outcomes EXCEPT ![c] = Append(@, o)]
    /\ IF o = CatalogResponse
       THEN /\ catalog' = [catalog EXCEPT ![c] = models]
            /\ result' = [result EXCEPT ![c] =
                            ModelList(IF adapter[c] = "openai"
                                      THEN OpenAI_list_models(models)
                                      ELSE Gemini_list_models(models))]
            /\ pc' = [pc EXCEPT ![c] = "done"]
            /\ running' = NoCall
            /\ UNCHANGED <<error, retry_count>>
       ELSE /\ models = <<>>
            /\ error' = [error EXCEPT ![c] = o]
            /\ retry_count' = [retry_count EXCEPT ![c] = 0]
            /\ pc' = [pc EXCEPT ![c] = "handle"]
            /\ UNCHANGED <<catalog, result, running>>
    /\ UNCHANGED <<op, adapter, prompt, model, pending, waits, scheduling>>
    /\ UNCHANGED <<adapterVars, parseVars, resolveVars>>

\* a variant of CaughtError in which the exception is kept in one slot that
\* all calls share
CaughtError_shared(c) == error[MainCall]

\* "except Exception as e": the exception is a local of the call's own frame
CaughtError(c) == error[c]

\* _handle_error up to its time.sleep call, or up to its raise when it does not sleep
HandleError(c) ==
    /\ pc[c] = "handle"
    /\ MayStep(c)
    /\ LET d == handle_error(adapter[c], CaughtError(c), retry_count[c], prompt[c], model[c])
       IN  IF d.sleep # None
           THEN /\ waits' = [waits EXCEPT ![c] = Append(@, d.sleep[1])]
                /\ pending' = [pending EXCEPT ![c] = d]
                /\ pc' = [pc EXCEPT ![c] = "sleep"]
                /\ UNCHANGED <<result, running>>
           ELSE /\ result' = [result EXCEPT ![c] = d.exc]
                /\ pc' = [pc EXCEPT ![c] = "done"]
                /\ running' = NoCall
                /\ UNCHANGED <<waits, pending>>
    /\ UNCHANGED <<op, adapter, prompt, model, error, retry_count, sent, outcomes, catalog, scheduling>>
    /\ UNCHANGED <<adapterVars, parseVars, resolveVars>>

\* a variant of RetryModel in which the retry is given the parsed base name
RetryModel_base(c) == parse_model_with_thinking_tokens(model[c])[1]

\* "return await self.generate(prompt, model)": the arguments of the retry
\* are the prompt and model keywords the except clause passed in
RetryPrompt(c) == prompt[c]
RetryModel(c) == model[c]

\* time.sleep returns: the frame re-invokes generate or raises
Wake(c) ==
    /\ pc[c] = "sleep"
    /\ MayStep(c)
    /\ retry_count' = [retry_count EXCEPT ![c] = pending[c].retry_count]
    /\ pending' = [pending EXCEPT ![c] = NoDecision]
    /\ IF pending[c].next = "generate"
       THEN /\ pc' = [pc EXCEPT ![c] = "try"]
            /\ prompt' = [prompt EXCEPT ![c] = RetryPrompt(c)]
            /\ model' = [model EXCEPT ![c] = RetryModel(c)]
            /\ UNCHANGED <<result, running>>
       ELSE /\ result' = [result EXCEPT ![c] = pending[c].exc]
            /\ pc' = [pc EXCEPT ![c] = "done"]
            /\ running' = NoCall
            /\ UNCHANGED <<prompt, model>>
    /\ UNCHANGED <<op, adapter, error, sent, outcomes, catalog, waits, scheduling>>
    /\ UNCHANGED <<adapterVars, parseVars, resolveVars>>

\* the vendor outcomes of a catalog request
ListOutcomes == Causes \cup {CatalogResponse}

Next ==
    \/ \E a \in Adapters, p \in Prompts, m \in ModelInputs : Generate(MainCall, a, p, m)
    \/ \E o \in Outcomes : VendorCall(MainCall, o)
    \/ \E a \in Adapters : ListModels(MainCall, a)
    \/ StaticList(MainCall)
    \/ \E o \in ListOutcomes, models \in Catalogs : VendorList(MainCall, o, models)
    \/ HandleError(MainCall)
    \/ Wake(MainCall)

Spec == Init /\ [][Next]_vars

-----------------------------------------------------------------------------
(* The parser applied to every raw string up to MaxLen *)

Alphabet == {"a", ":", "0", "1", "k", "m", "\n"}

RawStrings == UNION { [1..n -> Alphabet] : n \in 0..MaxLen }

InitParse ==
    /\ InitCalls
    /\ scheduling = "event_loop"
    /\ InitConstructed
    /\ InitResolver
    /\ raw \in RawStrings
    /\ parsed = None
    /\ parse_pc = "input"

ParseModel ==
    /\ parse_pc = "input"
    /\ parsed' = parse_model_with_thinking_tokens(raw)
    /\ parse_pc' = "parsed"
    /\ UNCHANGED raw
    /\ UNCHANGED <<callVars, adapterVars, resolveVars>>

NextParse == ParseModel

SpecParse == InitParse /\ [][NextParse]_vars

-----------------------------------------------------------------------------
(* The causes of the specification's classification, per adapter, stated on *)
(* the exception itself.                                                     *)

RateLimitCause(a, e) ==
    IF a = "gemini"
    THEN e.message \in {"Quota exceeded", "Quota exceeded for this API key"}
    ELSE e.type = "RateLimitError"

AuthCause(a, e) ==
    /\ ~RateLimitCause(a, e)
    /\ IF a = "gemini" THEN e.message = "Invalid API key"
                       ELSE e.type = "AuthenticationError"

GenericApiCause(a, e) ==
    /\ ~RateLimitCause(a, e)
    /\ ~AuthCause(a, e)
    /\ e.type = "APIError"

OtherCause(a, e) ==
    /\ ~RateLimitCause(a, e)
    /\ ~AuthCause(a, e)
    /\ e.type = "Exception"

\* every vendor call of call c made so far failed with a cause satisfying Cause
EveryAttempt(c, Cause(_, _)) ==
    /\ Len(outcomes[c]) >= 1
    /\ \A i \in 1..Len(outcomes[c]) : Cause(adapter[c], outcomes[c][i])

Returned(c) == pc[c] = "done" /\ result[c].type = "PromptResponse"
Raised(c, kind) == pc[c] = "done" /\ ErrorKind(result[c]) = kind

-----------------------------------------------------------------------------
(* Claims *)

\* C1: a generate call with non-empty prompt and model whose vendor call fails
\* with a generic API error on every attempt makes 4 vendor calls in total, never
\* more, and then raises ProviderError.
C1_GenericErrorStopsAfterFourAttempts ==
    \A c \in Calls :
        (HasRetryContext(prompt[c], model[c]) /\ EveryAttempt(c, GenericApiCause))
            => /\ Len(sent[c]) <= max_retries + 1
               /\ (pc[c] = "done" => /\ Len(sent[c]) = max_retries + 1
                                     /\ ErrorKind(result[c]) = "ProviderError")

\* C2: a generate call whose vendor call fails with a rate-limit/quota cause on
\* every attempt makes at most 4 vendor calls (3 retries) and ends raising a
\* ProviderError that carries the message of the last failure.
C2_RateLimitRetriesBounded ==
    \A c \in Calls :
        (HasRetryContext(prompt[c], model[c]) /\ EveryAttempt(c, RateLimitCause))
            => /\ Len(sent[c]) <= 1 + max_retries
               /\ (pc[c] = "done"
                     => /\ ErrorKind(result[c]) = "ProviderError"
                        /\ result[c].message = outcomes[c][Len(outcomes[c])].message)

\* C3: the wait that follows the n-th failed attempt (n = 0, 1, 2) is 2^n for a
\* rate-limit/quota cause and 1 for a generic API error.
C3_BackoffIsExponentialInAttempt ==
    \A c \in Calls :
        \A k \in 1..Len(waits[c]) :
            k <= max_retries =>
                /\ RateLimitCause(adapter[c], outcomes[c][k]) => waits[c][k] = 2 ^ (k - 1)
                /\ GenericApiCause(adapter[c], outcomes[c][k]) => waits[c][k] = 1

\* C4: when the vendor call fails once with a rate-limit/quota cause and then
\* succeeds, generate returns the successful result after exactly one wait of 1
\* time unit and exactly two vendor calls.
C4_RateLimitOnceThenSuccess ==
    \A c \in Calls :
        ( /\ Len(outcomes[c]) = 2
          /\ RateLimitCause(adapter[c], outcomes[c][1])
          /\ outcomes[c][2].type = "ok" )
            => /\ Returned(c)
               /\ result[c].content = Some(outcomes[c][2].message)
               /\ waits[c] = <<1>>
               /\ Len(sent[c]) = 2

C4_Witness ==
    \E c \in Calls :
        /\ adapter[c] = "gemini"
        /\ Len(outcomes[c]) = 2
        /\ RateLimitCause(adapter[c], outcomes[c][1])
        /\ Returned(c)

\* C5: a failure classified as an authentication cause is never retried: it is
\* the last vendor call of the generate call, no wait follows it, and the call
\* raises AuthError, however many attempts preceded it.
C5_AuthFailureNeverRetried ==
    \A c \in Calls :
        \A i \in 1..Len(outcomes[c]) :
            AuthCause(adapter[c], outcomes[c][i])
                => /\ i = Len(outcomes[c])
                   /\ Len(sent[c]) = i
                   /\ Len(waits[c]) = i - 1
                   /\ pc[c] \in {"handle", "done"}
                   /\ (pc[c] = "done" => ErrorKind(result[c]) = "AuthError")

C5_Witness ==
    \E c \in Calls :
        /\ Len(outcomes[c]) >= 2
        /\ AuthCause(adapter[c], outcomes[c][Len(outcomes[c])])
        /\ Raised(c, "AuthError")
        /\ Len(waits[c]) = Len(outcomes[c]) - 1

\* C6: in every adapter a failure that is neither a rate-limit/quota signal, nor
\* an authentication signal, nor a vendor-reported API error is terminal: no wait
\* and no vendor call follows it, and the call raises ProviderError.
C6_OtherFailureIsTerminal ==
    \A c \in Calls :
        \A i \in 1..Len(outcomes[c]) :
            OtherCause(adapter[c], outcomes[c][i])
                => /\ i = Len(outcomes[c])
                   /\ Len(waits[c]) = i - 1
                   /\ pc[c] \in {"handle", "done"}
                   /\ (pc[c] = "done" => ErrorKind(result[c]) = "ProviderError")

\* C7: whenever generate returns a PromptResponse, on the first attempt or after
\* retries, its model field is the exact string passed as model, option suffix
\* included.
C7_ResponseEchoesRequestedModel ==
    \A c \in Calls : Returned(c) => result[c].model = model[c]

C7_Witness ==
    \E c \in Calls :
        /\ Returned(c)
        /\ adapter[c] = "anthropic"
        /\ model[c] = <<"m", ":", "4", "k">>
        /\ sent[c][Len(sent[c])].model = <<"m">>
        /\ Len(outcomes[c]) >= 2

C9_BudgetSentIffOptionPresent ==
    \A c \in Calls :
        adapter[c] = "anthropic" =>
            \A i \in 1..Len(sent[c]) :
                sent[c][i].thinking_tokens = parse_model_with_thinking_tokens(model[c])[2]

\* the factor the grammar gives each unit
UnitFactor(unit) ==
    CASE unit = "" -> 1 [] unit = "k" -> 1024 [] unit = "m" -> 1024 * 1024

\* C10: every raw model string <name>:<digits><unit>, unit empty, 'k' or 'm',
\* parses to baseModel = <name> and optionTokens = digits times 1, 1024 or
\* 1024*1024.
C10_SuffixedStringParses ==
    parse_pc = "parsed" =>
        \A i \in 1..Len(raw) :
            LET name == SubSeq(raw, 1, i - 1)
                rest == SubSeq(raw, i + 1, Len(raw))
            IN  (raw[i] = ":" /\ IsDigits(DigitsOf(rest)))
                    => parsed = << name, Some(int(DigitsOf(rest)) * UnitFactor(UnitOf(rest))) >>

\* the raw string has no ':' or its last ':' is not followed by digits and an
\* optional 'k'/'m' up to the end of the string
HasNoOptionSuffix(s) ==
    \A i \in 1..Len(s) :
        (s[i] = ":" /\ \A j \in (i + 1)..Len(s) : s[j] # ":")
            => ~IsDigits(DigitsOf(SubSeq(s, i + 1, Len(s))))

\* C11: a raw model string with no colon, or whose final colon is not followed
\* by digits and an optional lowercase unit up to the end of the string, parses
\* to the entire input as baseModel with optionTokens absent.
C11_NoSuffixReturnsWholeInput ==
    (parse_pc = "parsed" /\ HasNoOptionSuffix(raw)) => parsed = <<raw, None>>

-----------------------------------------------------------------------------
(* Provider.from_prefix *)

\* the keys and values of prefix_map, in the order of the source
prefix_map ==
    << << <<"o">>,                                      "openai" >>,
       << <<"o","p","e","n","a","i">>,                  "openai" >>,
       << <<"a">>,                                      "anthropic" >>,
       << <<"a","n","t","h","r","o","p","i","c">>,      "anthropic" >>,
       << <<"g">>,                                      "gemini" >>,
       << <<"g","e","m","i","n","i">>,                  "gemini" >>,
       << <<"q">>,                                      "groq" >>,
       << <<"g","r","o","q">>,                          "groq" >>,
       << <<"d">>,                                      "deepseek" >>,
       << <<"d","e","e","p","s","e","e","k">>,          "deepseek" >>,
       << <<"l">>,                                      "ollama" >>,
       << <<"o","l","l","a","m","a">>,                  "ollama" >> >>

\* "key in prefix_map" and "prefix_map[key]"
InPrefixMap(key) == \E i \in 1..Len(prefix_map) : prefix_map[i][1] = key
Lookup(key) == prefix_map[CHOOSE i \in 1..Len(prefix_map) : prefix_map[i][1] = key][2]

\* a member of the Provider enum / ValueError(f"Unknown provider prefix: {prefix}")
ProviderMember(value) == [type |-> "Provider", text |-> value, arg |-> <<>>]
UnknownPrefix(s) == [type |-> "ValueError", text |-> "Unknown provider prefix: ", arg |-> s]

\* a variant of from_prefix that looks the prefix up as it was given
from_prefix_exact(s) ==
    IF ~InPrefixMap(s) THEN UnknownPrefix(s) ELSE ProviderMember(Lookup(s))

\* a variant of from_prefix that resolves only the providers that have an adapter
from_prefix_available(s) ==
    IF ~InPrefixMap(lower(s)) \/ Lookup(lower(s)) \notin Adapters
    THEN UnknownPrefix(s)
    ELSE ProviderMember(Lookup(lower(s)))

\* Provider.from_prefix
from_prefix(s) ==
    IF ~InPrefixMap(lower(s)) THEN UnknownPrefix(s) ELSE ProviderMember(Lookup(lower(s)))

\* length of the undocumented prefixes explored
MaxPrefixLen == 2

\* every spelling of s in upper and lower case letters
RECURSIVE CaseVariants(_)
CaseVariants(s) ==
    IF s = <<>> THEN {<<>>}
    ELSE { <<h>> \o t : h \in {LowerChar(Head(s)), UpperChar(Head(s))},
                        t \in CaseVariants(Tail(s)) }

PrefixAlphabet == {"o", "O", "a", "x", " ", "0"}

PrefixInputs ==
    UNION { CaseVariants(prefix_map[i][1]) : i \in 1..Len(prefix_map) }
        \cup UNION { [1..n -> PrefixAlphabet] : n \in 0..MaxPrefixLen }

InitResolve ==
    /\ InitCalls
    /\ scheduling = "event_loop"
    /\ InitConstructed
    /\ InitParser
    /\ prefix \in PrefixInputs
    /\ resolved = NoException
    /\ resolve_pc = "input"

\* Provider.from_prefix(prefix)
FromPrefix ==
    /\ resolve_pc = "input"
    /\ resolved' = from_prefix(prefix)
    /\ resolve_pc' = "resolved"
    /\ UNCHANGED prefix
    /\ UNCHANGED <<callVars, adapterVars, parseVars>>

NextResolve == FromPrefix

SpecResolve == InitResolve /\ [][NextResolve]_vars

\* the documented table: the prefixes of each Provider
DocumentedPrefixes(p) ==
    CASE p = "openai"    -> { <<"o">>, <<"o","p","e","n","a","i">> }
      [] p = "anthropic" -> { <<"a">>, <<"a","n","t","h","r","o","p","i","c">> }
      [] p = "gemini"    -> { <<"g">>, <<"g","e","m","i","n","i">> }
      [] p = "groq"      -> { <<"q">>, <<"g","r","o","q">> }
      [] p = "deepseek"  -> { <<"d">>, <<"d","e","e","p","s","e","e","k">> }
      [] p = "ollama"    -> { <<"l">>, <<"o","l","l","a","m","a">> }

Providers == {"openai", "anthropic", "gemini", "groq", "deepseek", "ollama"}

\* s spells a documented prefix of p in some letter case
Spells(s, p) == \E d \in DocumentedPrefixes(p) : s \in CaseVariants(d)

\* C12: every spelling of a documented prefix, in any letter case, resolves to
\* its documented Provider; every other input, the empty string included,
\* raises the validation error naming the prefix as it was given.
C12_ResolutionIsCaseInsensitiveAndTotal ==
    resolve_pc = "resolved" =>
        /\ \A p \in Providers : Spells(prefix, p) => resolved = ProviderMember(p)
        /\ (~\E p \in Providers : Spells(prefix, p)) =>
                /\ resolved.type = "ValueError"
                /\ resolved.arg = prefix

\* a mixed-case spelling resolved to its Provider
C12_Witness ==
    /\ resolve_pc = "resolved"
    /\ prefix = <<"O","p","E","n","A","I">>
    /\ resolved = ProviderMember("openai")

\* the empty string was refused
C12_WitnessEmpty ==
    /\ resolve_pc = "resolved"
    /\ prefix = <<>>
    /\ resolved.type = "ValueError"

-----------------------------------------------------------------------------
(* Construction of the adapters under every setting of the credentials *)

InitAdapters ==
    /\ InitCalls
    /\ scheduling = "event_loop"
    /\ InitParser
    /\ InitResolver
    /\ env \in [EnvVars -> EnvValues]
    /\ instance = [a \in Adapters |-> NotConstructed]
    /\ api_key = [a \in Adapters |-> None]
    /\ genai_key = None

\* OpenAIProvider(), AnthropicProvider(), GeminiProvider()
Construct(a) ==
    /\ instance[a] = NotConstructed
    /\ running = NoCall
    /\ api_key' = [api_key EXCEPT ![a] = getenv(a)]
    /\ IF NotKey(getenv(a))
       THEN /\ instance' = [instance EXCEPT ![a] = ConstructionFailed(a)]
            /\ UNCHANGED genai_key
       ELSE /\ instance' = [instance EXCEPT ![a] = Constructed]
            /\ genai_key' = IF a = "gemini" THEN getenv(a) ELSE genai_key
    /\ UNCHANGED env
    /\ UNCHANGED <<callVars, parseVars, resolveVars>>

\* the calls made on the constructed adapters
UseOutcomes == {OkResponse, [type |-> "AuthenticationError", message |-> "Invalid API key"]}
UseListOutcomes == {CatalogResponse, [type |-> "AuthenticationError", message |-> "Invalid API key"]}

NextAdapters ==
    \/ \E a \in Adapters : Construct(a)
    \/ \E a \in Adapters : Generate(MainCall, a, "Test prompt", <<"m">>)
    \/ \E o \in UseOutcomes : VendorCall(MainCall, o)
    \/ \E a \in Adapters : ListModels(MainCall, a)
    \/ StaticList(MainCall)
    \/ \E o \in UseListOutcomes, models \in Catalogs : VendorList(MainCall, o, models)
    \/ HandleError(MainCall)

SpecAdapters == InitAdapters /\ [][NextAdapters]_vars

\* the credential variable the documentation gives for each adapter
CredentialVariable(a) ==
    CASE a = "openai"    -> "OPENAI_API_KEY"
      [] a = "anthropic" -> "ANTHROPIC_API_KEY"
      [] a = "gemini"    -> "GEMINI_API_KEY"

MissingOrEmpty(v) == env[v] = None \/ env[v] = Some("")

\* C13: an adapter's construction fails, with the error naming its own
\* credential variable, exactly when that variable is missing or empty,
\* whatever the other variables hold; whatever became of the other adapters,
\* an adapter not yet constructed can be constructed, and a constructed one
\* can be used.
C13_ConstructionDependsOnOwnCredentialOnly ==
    \A a \in Adapters :
        /\ instance[a].state = "failed" =>
                /\ MissingOrEmpty(CredentialVariable(a))
                /\ instance[a].arg = CredentialVariable(a)
        /\ instance[a].state = "ok" =>
                /\ ~MissingOrEmpty(CredentialVariable(a))
                /\ api_key[a] = env[CredentialVariable(a)]
        /\ (instance[a].state = "none" /\ running = NoCall) => ENABLED Construct(a)
        /\ (instance[a].state = "ok" /\ pc[MainCall] = "idle") =>
                /\ ENABLED Generate(MainCall, a, "Test prompt", <<"m">>)
                /\ ENABLED ListModels(MainCall, a)

\* the OpenAI construction failed for want of its variable, and the Gemini
\* adapter, constructed after it, has returned a response
C13_Witness ==
    /\ instance["openai"].state = "failed"
    /\ env["OPENAI_API_KEY"] = None
    /\ instance["gemini"].state = "ok"
    /\ adapter[MainCall] = "gemini"
    /\ Returned(MainCall)

-----------------------------------------------------------------------------
(* Two calls in flight *)

\* vendor calls explored per call when two calls are in flight
MaxConcAttempts == 2

ConcOutcomes ==
    { OkResponse,
      [type |-> "RateLimitError", message |-> "Quota exceeded"],
      [type |-> "APIError", message |-> "Internal server error"] }

ConcListOutcomes ==
    { CatalogResponse,
      [type |-> "RateLimitError", message |-> "Quota exceeded"],
      [type |-> "APIError", message |-> "Internal server error"] }

\* The callers' two ways of having calls in flight: tasks of one event loop
\* (asyncio.gather), or one thread with its own loop per call.
InitConc ==
    /\ InitCalls
    /\ scheduling \in {"event_loop", "threads"}
    /\ InitConstructed
    /\ InitParser
    /\ InitResolver

NextConc ==
    \E c \in Calls :
        \/ \E a \in Adapters : Generate(c, a, "Test prompt", <<"m">>)
        \/ \E o \in ConcOutcomes : Len(sent[c]) < MaxConcAttempts /\ VendorCall(c, o)
        \/ \E a \in Adapters : ListModels(c, a)
        \/ StaticList(c)
        \/ \E o \in ConcListOutcomes, models \in Catalogs :
                Len(sent[c]) < MaxConcAttempts /\ VendorList(c, o, models)
        \/ HandleError(c)
        \/ Wake(c)

SpecConc == InitConc /\ [][NextConc]_vars

\* C14: while one call is in its backoff wait, another call in flight on the
\* same event loop or on another thread (submitted and not yet started, or
\* about to call the vendor) can take its next step.
C14_BackoffSuspendsOnlyTheRetryingCall ==
    \A c \in Calls, d \in Calls :
        (c # d /\ pc[c] = "sleep") =>
            /\ pc[d] = "idle" => ENABLED (\E a \in Adapters : Generate(d, a, "Test prompt", <<"m">>))
            /\ pc[d] = "try" => ENABLED VendorCall(d, OkResponse)

\* What a call running alone arrives at, given its arguments and the vendor
\* outcomes outs (and the catalog a successful listing returned): i vendor
\* calls have been made and ws are the waits so far.
RECURSIVE Alone(_, _, _, _, _, _, _, _)
Alone(a, operation, p, m, outs, models, i, ws) ==
    IF operation = "list_models" /\ a = "anthropic"
    THEN [result |-> ModelList(Anthropic_list_models), calls |-> 0, waits |-> <<>>]
    ELSE IF i >= Len(outs)      \* the vendor has not answered the next call yet
    THEN [result |-> NoResult, calls |-> i, waits |-> ws]
    ELSE
    LET o == outs[i + 1]
        t == IF operation = "list_models"
             THEN IF o = CatalogResponse
                  THEN [returns |-> TRUE, exc |-> NoError,
                        value |-> ModelList(IF a = "openai" THEN OpenAI_list_models(models)
                                            ELSE Gemini_list_models(models))]
                  ELSE [returns |-> FALSE, exc |-> o, value |-> NoException]
             ELSE IF o.type \in ResponseShapes THEN TryResult(a, m, o)
                  ELSE [returns |-> FALSE, exc |-> o, value |-> NoException]
        d == handle_error(a, t.exc, 0, p, m)
    IN  IF t.returns THEN [result |-> t.value, calls |-> i + 1, waits |-> ws]
        ELSE IF d.sleep = None THEN [result |-> d.exc, calls |-> i + 1, waits |-> ws]
        ELSE IF d.next = "generate"
             THEN Alone(a, operation, p, m, outs, models, i + 1, Append(ws, d.sleep[1]))
        ELSE [result |-> d.exc, calls |-> i + 1, waits |-> Append(ws, d.sleep[1])]

\* C15: whatever the other call does and however the two interleave, a call
\* that has ended has the result, the number of vendor calls and the waits it
\* would have had running alone against the same vendor outcomes.
C15_ConcurrentCallsAreIndependent ==
    \A c \in Calls :
        pc[c] = "done" =>
            LET alone == Alone(adapter[c], op[c], prompt[c], model[c],
                               outcomes[c], catalog[c], 0, <<>>)
            IN  /\ result[c] = alone.result
                /\ Len(sent[c]) = alone.calls
                /\ waits[c] = alone.waits

\* on threads, the second call failed while the first was in its backoff wait,
\* and both have ended
C15_Witness ==
    /\ scheduling = "threads"
    /\ pc["c1"] = "done" /\ pc["c2"] = "done"
    /\ adapter["c1"] = adapter["c2"]
    /\ Len(outcomes["c1"]) = 2 /\ outcomes["c1"][1].type = "RateLimitError"
    /\ Len(outcomes["c2"]) = 1 /\ outcomes["c2"][1].type = "APIError"
    /\ op["c1"] = "generate" /\ op["c2"] = "list_models"

-----------------------------------------------------------------------------
\* C16: a list_models call whose vendor request failed with a retryable cause
\* (rate limit or quota, generic API error) makes no backoff wait and no
\* second vendor request: it goes from the failure straight to the raise.
C16_ListFailureRaisesWithoutWaiting ==
    \A c \in Calls :
        (/\ op[c] = "list_models"
         /\ Len(outcomes[c]) >= 1
         /\ \/ RateLimitCause(adapter[c], outcomes[c][1])
            \/ GenericApiCause(adapter[c], outcomes[c][1]))
        => /\ waits[c] = <<>>
           /\ pc[c] \in {"handle", "done"}
           /\ Len(sent[c]) = 1

\* C17: a call that ended by raising surfaced AuthError or ProviderError,
\* never the vendor's own exception.
C17_OnlyAuthOrProviderErrorSurfaces ==
    \A c \in Calls :
        (pc[c] = "done" /\ ErrorKind(result[c]) # "none")
            => ErrorKind(result[c]) \in {"AuthError", "ProviderError"}

-----------------------------------------------------------------------------
\* C18: a generate call that returned, in any adapter and after any retries,
\* returned a PromptResponse whose content is a text, never null.
C18_ReturnedContentIsNeverNull ==
    \A c \in Calls :
        (op[c] = "generate" /\ Returned(c)) =>
            /\ result[c].content # None
            /\ Len(result[c].content) = 1

\* the vendor's first response held a null text; the call was retried and
\* returned the text of the second response
C18_Witness ==
    /\ op[MainCall] = "generate"
    /\ Len(outcomes[MainCall]) = 2
    /\ outcomes[MainCall][1].type = "null_text"
    /\ Returned(MainCall)
    /\ result[MainCall].content = Some(outcomes[MainCall][2].message)

\* C19: a Gemini generate whose vendor response has no usable direct text
\* (the field is absent, or null) but a candidate with parts returns that
\* part's text after the one vendor call, with no wait and no error.
C19_GeminiFallsBackToCandidates ==
    \A c \in Calls :
        (/\ op[c] = "generate"
         /\ adapter[c] = "gemini"
         /\ Len(outcomes[c]) >= 1
         /\ outcomes[c][1].type \in {"null_text", "no_text"})
        => /\ Returned(c)
           /\ result[c].content = Some(outcomes[c][1].message)
           /\ Len(sent[c]) = 1
           /\ waits[c] = <<>>

\* the part of C19 for a response object without the text field
AbsentTextFallsBack ==
    \A c \in Calls :
        (/\ op[c] = "generate"
         /\ adapter[c] = "gemini"
         /\ Len(outcomes[c]) >= 1
         /\ outcomes[c][1].type = "no_text")
        => /\ Returned(c)
           /\ result[c].content = Some(outcomes[c][1].message)
           /\ Len(sent[c]) = 1
           /\ waits[c] = <<>>

-----------------------------------------------------------------------------
\* the number of positions of the sequence xs that hold x
Occurrences(x, xs) == Cardinality({ i \in 1..Len(xs) : xs[i] = x })

\* an id that begins with "gpt-" or "text-"
TextGenerationId(id) ==
    \/ (Len(id) >= 4 /\ SubSeq(id, 1, 4) = <<"g", "p", "t", "-">>)
    \/ (Len(id) >= 5 /\ SubSeq(id, 1, 5) = <<"t", "e", "x", "t", "-">>)

CatalogIds(models) == [i \in 1..Len(models) |-> models[i].name]

\* C20: the list OpenAI list_models returns holds each catalog id that begins
\* with "gpt-" or "text-" as many times as the catalog does and no other id,
\* in ascending lexicographic order, whatever the order of the catalog.
C20_OpenAIListIsFilteredAndSorted ==
    \A c \in Calls :
        (op[c] = "list_models" /\ adapter[c] = "openai" /\ pc[c] = "done"
            /\ result[c].type = "models")
        => LET ids == result[c].ids
               all == CatalogIds(catalog[c])
           IN  /\ \A i \in 1..Len(ids) : TextGenerationId(ids[i])
               /\ \A i \in 1..Len(all) :
                    TextGenerationId(all[i]) => Occurrences(all[i], ids) = Occurrences(all[i], all)
               /\ Len(ids) = Cardinality({ i \in 1..Len(all) : TextGenerationId(all[i]) })
               /\ \A i \in 1..Len(ids), j \in 1..Len(ids) : i < j => StrLeq(ids[i], ids[j])

\* a catalog that lists "text-a" before "gpt-4" came back as gpt-4, text-a
C20_Witness ==
    /\ op[MainCall] = "list_models" /\ adapter[MainCall] = "openai" /\ pc[MainCall] = "done"
    /\ CatalogIds(catalog[MainCall]) = << <<"t","e","x","t","-","a">>, <<"g","p","t","-","4">> >>
    /\ result[MainCall] = ModelList(<< <<"g","p","t","-","4">>, <<"t","e","x","t","-","a">> >>)

-----------------------------------------------------------------------------
\* a catalog model that can generate text
CanGenerateContent(entry) == "generateContent" \in entry.methods

\* seg is what follows the last '/' of name (the whole name when it has none)
IsLastSegmentOf(seg, name) ==
    /\ \A i \in 1..Len(seg) : seg[i] # "/"
    /\ \/ name = seg
       \/ /\ Len(name) > Len(seg)
          /\ name[Len(name) - Len(seg)] = "/"
          /\ SubSeq(name, Len(name) - Len(seg) + 1, Len(name)) = seg

\* C21: the list Gemini list_models returns has one entry for each catalog
\* model that supports "generateContent", in catalog order, each the last
\* '/'-separated segment of the model's name, and nothing else.
C21_GeminiListIsCapableModelsInCatalogOrder ==
    \A c \in Calls :
        (op[c] = "list_models" /\ adapter[c] = "gemini" /\ pc[c] = "done"
            /\ result[c].type = "models")
        => LET ids == result[c].ids
               all == catalog[c]
               capable == { i \in 1..Len(all) : CanGenerateContent(all[i]) }
               rank(i) == Cardinality({ j \in capable : j <= i })
           IN  /\ Len(ids) = Cardinality(capable)
               /\ \A i \in capable : IsLastSegmentOf(ids[rank(i)], all[i].name)

\* a catalog of a two-slash name and a model without the capability came back
\* as the one short name
C21_Witness ==
    /\ op[MainCall] = "list_models" /\ adapter[MainCall] = "gemini" /\ pc[MainCall] = "done"
    /\ Len(catalog[MainCall]) = 2
    /\ catalog[MainCall][1].methods = {"embedContent"}
    /\ catalog[MainCall][2].name = <<"m", "/", "m", "/", "g", "p", "t", "-", "3">>
    /\ result[MainCall] = ModelList(<< <<"g", "p", "t", "-", "3">> >>)

-----------------------------------------------------------------------------
(* Token usage *)

\* vendor calls explored per call when the responses report usage
MaxUsageAttempts == 3

UsageOutcomes ==
    { OkResponse, UsageResponse, NullUsageResponse, NullTextUsageResponse,
      [type |-> "ok", message |-> "Test response", usage |-> Some(Usage(0, 0))],
      [type |-> "RateLimitError", message |-> "Quota exceeded"] }

NextUsage ==
    \/ \E a \in Adapters, m \in {<<"m">>, <<"g", "p", "t", "-", "4">>} :
            Generate(MainCall, a, "Test prompt", m)
    \/ \E o \in UsageOutcomes : Len(sent[MainCall]) < MaxUsageAttempts /\ VendorCall(MainCall, o)
    \/ HandleError(MainCall)
    \/ Wake(MainCall)

SpecUsage == Init /\ [][NextUsage]_vars

\* the vendor response reports no usage
NoUsageReported(o) == "usage" \notin DOMAIN o \/ o.usage = None

\* C22: the tokens of a returned PromptResponse are absent when the response
\* of the successful attempt reports no usage, and otherwise are the
\* non-negative sum of that response's prompt and completion tokens; what the
\* responses of earlier, failed attempts reported is not added.
C22_TokensAreThoseOfTheSuccessfulAttempt ==
    \A c \in Calls :
        (op[c] = "generate" /\ Returned(c)) =>
            LET o == outcomes[c][Len(outcomes[c])]
            IN  IF NoUsageReported(o) THEN result[c].tokens = None
                ELSE /\ result[c].tokens = Some(o.usage[1].prompt + o.usage[1].completion)
                     /\ result[c].tokens[1] >= 0

\* Anthropic: a rate-limit failure, then a response reporting 10 + 20 tokens
C22_Witness ==
    /\ adapter[MainCall] = "anthropic"
    /\ Returned(MainCall)
    /\ Len(outcomes[MainCall]) = 2
    /\ outcomes[MainCall][2] = UsageResponse
    /\ result[MainCall].tokens = Some(30)

\* Gemini: the first response reported 3 + 4 tokens and held no text, the
\* retry's response reported 10 + 20
C22_WitnessFailedAttemptWithUsage ==
    /\ adapter[MainCall] = "gemini"
    /\ Returned(MainCall)
    /\ outcomes[MainCall] = <<NullTextUsageResponse, UsageResponse>>
    /\ result[MainCall].tokens = Some(30)

-----------------------------------------------------------------------------
(* The credential held by a constructed adapter while the environment changes *)

\* the surrounding process sets or unsets a credential variable
SetEnv(v, value) ==
    /\ env[v] # value
    /\ env' = [env EXCEPT ![v] = value]
    /\ UNCHANGED <<instance, api_key, genai_key>>
    /\ UNCHANGED <<callVars, parseVars, resolveVars>>

NextCredential ==
    \/ NextAdapters
    \/ \E v \in EnvVars, value \in EnvValues : SetEnv(v, value)

SpecCredential == InitAdapters /\ [][NextCredential]_vars

\* C23: once an adapter is constructed, no step (a call, its error handling,
\* a retry, a change of the environment) changes the key the adapter holds
\* or, for Gemini, the key the vendor library was configured with.
C23_CredentialFixedAtConstruction ==
    [][\A a \in Adapters :
            instance[a] = Constructed =>
                /\ instance'[a] = Constructed
                /\ api_key'[a] = api_key[a]
                /\ (a = "gemini" => genai_key' = genai_key)]_vars

\* the OpenAI adapter was constructed with test_key, the variable was unset
\* afterwards, and a generate call on the adapter has returned
C23_Witness ==
    /\ instance["openai"] = Constructed
    /\ api_key["openai"] = Some("test_key")
    /\ env["OPENAI_API_KEY"] = None
    /\ adapter[MainCall] = "openai"
    /\ op[MainCall] = "generate"
    /\ Returned(MainCall)

-----------------------------------------------------------------------------
\* C24: every vendor call of one generate call carries the request of the
\* first attempt (same prompt, same model name, same option parameters), and
\* every attempt is one vendor call: one more call than waits at most, and
\* no wait after which a retry was due is left without its call.
C24_RetryResendsTheWholeRequest ==
    \A c \in Calls :
        op[c] = "generate" =>
            /\ \A i \in 1..Len(sent[c]) : sent[c][i] = sent[c][1]
            /\ Len(sent[c]) = Len(outcomes[c])
            /\ Len(sent[c]) <= Len(waits[c]) + 1
            /\ (pc[c] = "done" /\ Returned(c)) => Len(sent[c]) = Len(waits[c]) + 1

\* Anthropic, model "m:4k": two failures and a success, three equal requests
\* each carrying the prompt and the thinking budget
C24_Witness ==
    /\ adapter[MainCall] = "anthropic"
    /\ Returned(MainCall)
    /\ Len(sent[MainCall]) = 3
    /\ sent[MainCall][3].prompt = "Test prompt"
    /\ sent[MainCall][3].thinking_tokens = Some(4096)
    /\ sent[MainCall][3] = sent[MainCall][1]

-----------------------------------------------------------------------------
(* The textual classification of the Gemini adapter *)

\* vendor calls explored per call for the message classification
MaxClassifyAttempts == 2

ClassifyOutcomes ==
    { OkResponse } \cup
    { [type |-> "Exception", message |-> msg] :
        msg \in { "Quota exceeded for this API key", "QUOTA EXCEEDED", "Quota exceeded",
                  "Authentication failed", "API KEY not valid", "Invalid API key",
                  "Deadline exceeded" } }

NextClassify ==
    \/ \E a \in Adapters, p \in Prompts : Generate(MainCall, a, p, <<"m">>)
    \/ \E o \in ClassifyOutcomes :
            Len(sent[MainCall]) < MaxClassifyAttempts /\ VendorCall(MainCall, o)
    \/ HandleError(MainCall)
    \/ Wake(MainCall)

SpecClassify == Init /\ [][NextClassify]_vars

\* the messages that contain the word quota, in any letter case
MentionsQuota(msg) ==
    msg \in {"Quota exceeded for this API key", "QUOTA EXCEEDED", "Quota exceeded"}

\* the messages that contain "authentication" or "api key", in any letter case
MentionsAuth(msg) ==
    msg \in {"Quota exceeded for this API key", "Authentication failed",
             "API KEY not valid", "Invalid API key"}

\* C25: in the Gemini adapter a failure whose message mentions quota takes
\* the rate-limit path even when it also mentions the API key: its backoff wait
\* follows, it is never raised as AuthError, and with a prompt and a model to
\* retry with the call does not end on it; a failure that mentions
\* authentication or the API key and not quota ends the call with AuthError,
\* with no wait and no further vendor call.
C25_GeminiQuotaBeforeAuthentication ==
    \A c \in Calls :
        (adapter[c] = "gemini" /\ op[c] = "generate") =>
            \A i \in 1..Len(outcomes[c]) :
                LET o == outcomes[c][i]
                    handled == i < Len(outcomes[c]) \/ pc[c] # "handle"
                    last == i = Len(outcomes[c])
                IN  /\ (o.type \notin ResponseShapes /\ MentionsQuota(o.message)) =>
                        /\ handled => (Len(waits[c]) >= i /\ waits[c][i] = 1)
                        /\ (last /\ pc[c] = "done") =>
                                /\ ErrorKind(result[c]) # "AuthError"
                                /\ (prompt[c] = "" \/ model[c] = <<>>)
                    /\ (o.type \notin ResponseShapes /\ MentionsAuth(o.message)
                            /\ ~MentionsQuota(o.message)) =>
                        /\ last
                        /\ Len(waits[c]) = i - 1
                        /\ pc[c] \in {"handle", "done"}
                        /\ (pc[c] = "done" => ErrorKind(result[c]) = "AuthError")

\* "Quota exceeded for this API key" was followed by a wait of 1 and a second
\* vendor call, which returned
C25_Witness ==
    /\ adapter[MainCall] = "gemini"
    /\ Len(outcomes[MainCall]) = 2
    /\ outcomes[MainCall][1].message = "Quota exceeded for this API key"
    /\ waits[MainCall] = <<1>>
    /\ Returned(MainCall)

\* "API KEY not valid" ended the call with AuthError
C25_WitnessAuth ==
    /\ adapter[MainCall] = "gemini"
    /\ outcomes[MainCall] = <<[type |-> "Exception", message |-> "API KEY not valid"]>>
    /\ waits[MainCall] = <<>>
    /\ Raised(MainCall, "AuthError")

-----------------------------------------------------------------------------
(* Provider.from_prefix beside the construction of the adapters *)

RegistryPrefixes ==
    { prefix_map[i][1] : i \in 1..Len(prefix_map) }
        \cup { <<>>, <<"x">>, <<"O">>, <<"G", "R", "O", "Q">> }

InitRegistry ==
    /\ InitCalls
    /\ scheduling = "event_loop"
    /\ InitParser
    /\ env \in [EnvVars -> EnvValues]
    /\ instance = [a \in Adapters |-> NotConstructed]
    /\ api_key = [a \in Adapters |-> None]
    /\ genai_key = None
    /\ prefix \in RegistryPrefixes
    /\ resolved = NoException
    /\ resolve_pc = "input"

NextRegistry ==
    \/ FromPrefix
    \/ \E a \in Adapters : Construct(a)

SpecRegistry == InitRegistry /\ [][NextRegistry]_vars

\* what the documented table gives for s, whatever else holds
DocumentedResolution(s, r) ==
    IF \E p \in Providers : Spells(s, p)
    THEN \E p \in Providers : Spells(s, p) /\ r = ProviderMember(p)
    ELSE r.type = "ValueError" /\ r.arg = s

\* C26: a resolution step gives what the table gives for the prefix, under
\* every setting of the credential variables and whichever adapters are
\* constructed or failed; it constructs no adapter and leaves the environment,
\* the adapters, their keys and the calls as they were.  The groq, deepseek
\* and ollama prefixes resolve although no adapter exists for them.
C26_ResolutionIsAPureLookup ==
    [][(resolve_pc = "input" /\ resolve_pc' = "resolved") =>
            /\ DocumentedResolution(prefix, resolved')
            /\ UNCHANGED <<env, instance, api_key, genai_key>>
            /\ UNCHANGED callVars
            /\ UNCHANGED prefix]_vars

\* "q" resolved to groq with no credential variable set and the OpenAI
\* construction failed
C26_Witness ==
    /\ resolve_pc = "resolved"
    /\ prefix = <<"q">>
    /\ resolved = ProviderMember("groq")
    /\ \A v \in EnvVars : env[v] = None
    /\ instance["openai"].state = "failed"
    /\ instance["gemini"] = NotConstructed

-----------------------------------------------------------------------------
\* the model string begins with "gpt-"
IsChatModel(m) == Len(m) >= 4 /\ SubSeq(m, 1, 4) = <<"g", "p", "t", "-">>

\* C27: every attempt of an OpenAI generate call is one request, to the chat
\* completions endpoint when the model string begins with "gpt-" and to the
\* legacy completions endpoint otherwise, with temperature 0.7 and at most
\* 1024 output tokens; a retry goes to the endpoint of the first attempt.
C27_OpenAIEndpointFollowsModelPrefix ==
    \A c \in Calls :
        (adapter[c] = "openai" /\ op[c] = "generate") =>
            /\ Len(sent[c]) = Len(outcomes[c])
            /\ \A i \in 1..Len(sent[c]) :
                /\ sent[c][i].endpoint = IF IsChatModel(model[c])
                                         THEN "chat.completions.create"
                                         ELSE "completions.create"
                /\ sent[c][i].temperature = "0.7"
                /\ sent[c][i].max_tokens = 1024
                /\ sent[c][i].endpoint = sent[c][1].endpoint

\* model "m": the second attempt, after a rate-limit failure, went to the
\* legacy completions endpoint like the first, and returned
C27_Witness ==
    /\ adapter[MainCall] = "openai"
    /\ model[MainCall] = <<"m">>
    /\ Len(sent[MainCall]) = 2
    /\ sent[MainCall][1].endpoint = "completions.create"
    /\ sent[MainCall][2].endpoint = "completions.create"
    /\ Returned(MainCall)

\* model "gpt-4:4k" went to the chat endpoint
C27_WitnessChat ==
    /\ adapter[MainCall] = "openai"
    /\ model[MainCall] = <<"g", "p", "t", "-", "4", ":", "4", "k">>
    /\ Len(sent[MainCall]) = 1
    /\ sent[MainCall][1].endpoint = "chat.completions.create"

-----------------------------------------------------------------------------
\* the position of the last ':' of s (0 when there is none)
LastColon(s) ==
    LET colons == { i \in 1..Len(s) : s[i] = ":" }
    IN  IF colons = {} THEN 0 ELSE CHOOSE i \in colons : \A j \in colons : j <= i

SeveralColons(s) == Cardinality({ i \in 1..Len(s) : s[i] = ":" }) >= 2

\* the text after the last ':' is <digits><unit?>
EndsWithOption(s) ==
    /\ LastColon(s) > 0
    /\ IsDigits(DigitsOf(SubSeq(s, LastColon(s) + 1, Len(s))))

\* s split at its last ':'
SplitAtLastColon(s) ==
    LET rest == SubSeq(s, LastColon(s) + 1, Len(s))
    IN  << SubSeq(s, 1, LastColon(s) - 1),
           Some(int(DigitsOf(rest)) * UnitFactor(UnitOf(rest))) >>

\* C28: a raw string whose text after the last ':' is <digits><unit?> is split
\* at that last ':' only, whatever stands before it: further colons stay in
\* baseModel, and a string that begins with the suffix has the empty baseModel.
C28_SplitsAtTheLastColonOnly ==
    (/\ parse_pc = "parsed"
     /\ EndsWithOption(raw)
     /\ (SeveralColons(raw) \/ LastColon(raw) = 1))
        => parsed = SplitAtLastColon(raw)

\* the same for the raw strings without a line break
SplitsAtTheLastColonWithoutLineBreak ==
    (/\ parse_pc = "parsed"
     /\ EndsWithOption(raw)
     /\ (SeveralColons(raw) \/ LastColon(raw) = 1)
     /\ DotMatchesAll(raw))
        => parsed = SplitAtLastColon(raw)

\* "a:1:1k" without its last character fits the length explored: "a:1:1"
SeveralColonsSplit ==
    /\ parse_pc = "parsed"
    /\ raw = <<"a", ":", "1", ":", "1">>
    /\ parsed = << <<"a", ":", "1">>, Some(1) >>

-----------------------------------------------------------------------------
\* C29: a generate call makes a second vendor call only with a non-empty
\* prompt and a non-empty model; called with an empty prompt or an empty
\* model, a rate-limit failure is followed by one wait and then the raise, and
\* the vendor has been called exactly once.
C29_NoRetryWithoutPromptAndModel ==
    \A c \in Calls :
        op[c] = "generate" =>
            /\ Len(sent[c]) >= 2 => (prompt[c] # "" /\ model[c] # <<>>)
            /\ (/\ (prompt[c] = "" \/ model[c] = <<>>)
                /\ Len(outcomes[c]) >= 1
                /\ RateLimitCause(adapter[c], outcomes[c][1]))
               => /\ Len(sent[c]) = 1
                  /\ pc[c] \in {"handle", "sleep", "done"}
                  /\ pc[c] = "handle" => waits[c] = <<>>
                  /\ pc[c] \in {"sleep", "done"} => Len(waits[c]) = 1
                  /\ pc[c] = "done" => ErrorKind(result[c]) # "none"

\* a non-empty prompt with the empty model: one vendor call, one wait, raised
C29_Witness ==
    /\ op[MainCall] = "generate"
    /\ prompt[MainCall] = "Test prompt"
    /\ model[MainCall] = <<>>
    /\ Len(sent[MainCall]) = 1
    /\ RateLimitCause(adapter[MainCall], outcomes[MainCall][1])
    /\ waits[MainCall] = <<1>>
    /\ pc[MainCall] = "done"
    /\ ErrorKind(result[MainCall]) # "none"

====
